---- MODULE Spec2Model ----
(***************************************************************************)
(* A model of src/psx_manual_dashboard.py: the Streamlit script main(),    *)
(* rerun on every interaction of a browser session, with its helpers       *)
(* load_portfolio_from_excel, get_live_psx_prices, compute_sector_summary  *)
(* and save_upload.                                                        *)
(*                                                                         *)
(* Python strings are sequences of one-character strings, so that strip,   *)
(* upper, replace, split and splitext are computed and not assumed.        *)
(* Floats are records [nan, v] with v an integer (the sheets of the model  *)
(* hold whole numbers, which float64 represents exactly); a quotient is a  *)
(* reduced fraction [num, den].                                            *)
(***************************************************************************)
EXTENDS Integers, Sequences, FiniteSets, TLC

VARIABLES
    session_state,   \* st.session_state of each browser session
    uploaded_file,   \* value of the file_uploader widget of each session
    screen,          \* what the last run of each session rendered
    now,             \* datetime.now(), in whole seconds
    history_exists,  \* os.path.exists(UPLOAD_HISTORY_DIR)
    history,         \* the files of UPLOAD_HISTORY_DIR: file name -> bytes
    uploads,         \* every (name, bytes) main() has passed to save_upload
    run              \* what the last run of main() computed and rendered

vars == <<session_state, uploaded_file, screen, now, history_exists, history, uploads, run>>

\* ------------------------------------------------------------ bounds
MaxRows == 3
MaxClock == 2

\* ------------------------------------------------------------ optional values
None == <<>>
Some(x) == <<x>>
IsSome(o) == o # <<>>
The(o) == o[1]

\* ------------------------------------------------------------ strings
Ascii == <<" ", "%", ",", "-", ".", "0", "1", "2", "3", "4", "5", "6", "7", "8", "9",
           "A", "B", "C", "D", "E", "F", "G", "H", "I", "J", "K", "L", "M",
           "N", "O", "P", "Q", "R", "S", "T", "U", "V", "W", "X", "Y", "Z",
           "_",
           "a", "b", "c", "d", "e", "f", "g", "h", "i", "j", "k", "l", "m",
           "n", "o", "p", "q", "r", "s", "t", "u", "v", "w", "x", "y", "z">>

Chars == {Ascii[i] : i \in 1..Len(Ascii)}
OrdOf == [c \in Chars |-> CHOOSE i \in 1..Len(Ascii) : Ascii[i] = c]

\* ord(c), as the position of c in Ascii
Ord(c) == OrdOf[c]

LowerCase == {Ascii[i] : i \in OrdOf["a"]..OrdOf["z"]}
UpperCase == {Ascii[i] : i \in OrdOf["A"]..OrdOf["Z"]}
DigitChars == {Ascii[i] : i \in OrdOf["0"]..OrdOf["9"]}
ToUpper == [c \in Chars |-> IF c \in LowerCase THEN Ascii[OrdOf[c] - OrdOf["a"] + OrdOf["A"]] ELSE c]
ToLower == [c \in Chars |-> IF c \in UpperCase THEN Ascii[OrdOf[c] - OrdOf["A"] + OrdOf["a"]] ELSE c]

IsDigit(c) == c \in DigitChars
UpperChar(c) == ToUpper[c]
LowerChar(c) == ToLower[c]

Upper(s) == [i \in 1..Len(s) |-> UpperChar(s[i])]
Lower(s) == [i \in 1..Len(s) |-> LowerChar(s[i])]

RECURSIVE LStrip(_)
LStrip(s) == IF s # <<>> /\ Head(s) = " " THEN LStrip(Tail(s)) ELSE s

RECURSIVE RStrip(_)
RStrip(s) == IF s # <<>> /\ s[Len(s)] = " " THEN RStrip(SubSeq(s, 1, Len(s) - 1)) ELSE s

Strip(s) == RStrip(LStrip(s))

\* str.replace(old, new) for a one-character old and new
Replace(s, old, new) == [i \in 1..Len(s) |-> IF s[i] = old THEN new ELSE s[i]]

\* s with every character of the set cs removed
RECURSIVE Without(_, _)
Without(s, cs) ==
    IF s = <<>> THEN <<>>
    ELSE IF Head(s) \in cs THEN Without(Tail(s), cs)
    ELSE <<Head(s)>> \o Without(Tail(s), cs)

\* str.split(sep)[0]
RECURSIVE SplitFirst(_, _)
SplitFirst(s, sep) ==
    IF s = <<>> \/ Head(s) = sep THEN <<>>
    ELSE <<Head(s)>> \o SplitFirst(Tail(s), sep)

\* the order of Python strings
RECURSIVE StrLess(_, _)
StrLess(a, b) ==
    IF b = <<>> THEN FALSE
    ELSE IF a = <<>> THEN TRUE
    ELSE IF Head(a) = Head(b) THEN StrLess(Tail(a), Tail(b))
    ELSE Ord(Head(a)) < Ord(Head(b))

\* str(n) of an integer
RECURSIVE Digits(_)
Digits(n) == IF n < 10 THEN <<Ascii[Ord("0") + n]>>
             ELSE Digits(n \div 10) \o <<Ascii[Ord("0") + (n % 10)]>>

IntStr(n) == IF n < 0 THEN <<"-">> \o Digits(0 - n) ELSE Digits(n)

\* ------------------------------------------------------------ floats
F(v) == [nan |-> FALSE, v |-> v]
NaN == [nan |-> TRUE, v |-> 0]

FMul(a, b) == IF a.nan \/ b.nan THEN NaN ELSE F(a.v * b.v)
FSub(a, b) == IF a.nan \/ b.nan THEN NaN ELSE F(a.v - b.v)
FAdd(a, b) == IF a.nan \/ b.nan THEN NaN ELSE F(a.v + b.v)

\* Series.fillna(x)
Fillna(a, x) == IF a.nan THEN F(x) ELSE a

\* pandas' sum of a column skips NaN
RECURSIVE FSum(_)
FSum(xs) == IF xs = <<>> THEN F(0)
            ELSE FAdd(Fillna(Head(xs), 0), FSum(Tail(xs)))

Abs(n) == IF n < 0 THEN 0 - n ELSE n

RECURSIVE Gcd(_, _)
Gcd(a, b) == IF b = 0 THEN a ELSE Gcd(b, a % b)

\* the fraction n / d, d # 0, reduced and with a positive denominator
Frac(n, d) ==
    LET g == Gcd(Abs(n), Abs(d))
        sg == IF d < 0 THEN 0 - 1 ELSE 1
    IN  [num |-> (sg * n) \div g, den |-> (sg * d) \div g]

\* pnl / cost * 100 under the zero-cost policy of main() and
\* compute_sector_summary: [nan, num, den], a reduced fraction
Pct(n, d) == LET f == Frac(n, d) IN [nan |-> FALSE, num |-> f.num, den |-> f.den]
PctNaN == [nan |-> TRUE, num |-> 0, den |-> 1]
PctZero == [nan |-> FALSE, num |-> 0, den |-> 1]

\* the percentage without the zero-cost policy: a division by zero gives inf or nan
PnlPctUnguarded(pnl, cost) ==
    IF pnl.nan \/ cost.nan \/ cost.v = 0 THEN PctNaN ELSE Pct(pnl.v * 100, cost.v)

PnlPct(pnl, cost) ==
    IF cost.nan \/ cost.v # 0
    THEN IF pnl.nan \/ cost.nan THEN PctNaN ELSE Pct(pnl.v * 100, cost.v)
    ELSE PctZero

\* ------------------------------------------------------------ the sheet
\* A cell of the sheet as pandas.read_excel returns it: a text, a whole number
\* or an empty cell (NaN).
TextCell(s) == [t |-> "str", s |-> s, v |-> 0]
NumCell(n) == [t |-> "num", s |-> <<>>, v |-> n]
EmptyCell == [t |-> "nan", s |-> <<>>, v |-> 0]

\* Series.astype(str) on one cell
AsStr(c) ==
    CASE c.t = "str" -> c.s
      [] c.t = "num" -> IntStr(c.v)
      [] OTHER -> <<"n", "a", "n">>

RECURSIVE DigitsValue(_)
DigitsValue(s) == IF s = <<>> THEN 0
                  ELSE 10 * DigitsValue(SubSeq(s, 1, Len(s) - 1))
                       + (Ord(s[Len(s)]) - Ord("0"))

IsDigits(s) == s # <<>> /\ \A i \in 1..Len(s) : IsDigit(s[i])

\* pandas.to_numeric(errors="coerce") on one cell; of the texts, the whole
\* numbers in decimal are parsed, everything else is coerced to NaN
ToNumeric(c) ==
    CASE c.t = "num" -> F(c.v)
      [] c.t = "nan" -> NaN
      [] OTHER ->
           LET s == Strip(c.s) IN
           IF IsDigits(s) THEN F(DigitsValue(s))
           ELSE IF s # <<>> /\ Head(s) = "-" /\ IsDigits(Tail(s))
                THEN F(0 - DigitsValue(Tail(s)))
           ELSE NaN

ColSymbol == <<"S", "y", "m", "b", "o", "l">>
ColQuantity == <<"Q", "u", "a", "n", "t", "i", "t", "y">>
ColBuyPrice == <<"B", "u", "y", " ", "P", "r", "i", "c", "e">>
ColSector == <<"S", "e", "c", "t", "o", "r">>
Unknown == <<"U", "n", "k", "n", "o", "w", "n">>

required_cols == {ColSymbol, ColQuantity, ColBuyPrice}

\* df.columns = [c.strip() for c in df.columns]
StripColumns(columns) == [i \in 1..Len(columns) |-> Strip(columns[i])]

ColumnSet(columns) == {columns[i] : i \in 1..Len(columns)}

\* the positions of the columns called name
Positions(columns, name) == {i \in 1..Len(columns) : columns[i] = name}

\* df[name] is a Series only if one column has that name; with several it is a
\* DataFrame, on which .str and pd.to_numeric raise
IsSeries(columns, name) == Cardinality(Positions(columns, name)) = 1

Column(columns, name) == CHOOSE i \in Positions(columns, name) : TRUE

\* one row of the frame load_portfolio_from_excel returns
LoadedRow(columns, cells) ==
    [Symbol |-> Upper(Strip(AsStr(cells[Column(columns, ColSymbol)]))),
     Quantity |-> Fillna(ToNumeric(cells[Column(columns, ColQuantity)]), 0),
     BuyPrice |-> Fillna(ToNumeric(cells[Column(columns, ColBuyPrice)]), 0),
     Sector |-> IF ColSector \in ColumnSet(columns)
                THEN Strip(AsStr(cells[Column(columns, ColSector)]))
                ELSE Unknown]

\* the loader returning an empty frame, instead of raising, when a required
\* column is missing
load_portfolio_without_raise(file) ==
    IF ~IsSome(file.sheet)
    THEN [err |-> "other", missing |-> {}, df |-> <<>>]
    ELSE
    LET sheet == The(file.sheet)
        columns == StripColumns(sheet.columns)
        missing == required_cols \ ColumnSet(columns)
    IN  IF missing # {}
        THEN [err |-> "none", missing |-> missing, df |-> <<>>]
        ELSE IF \E c \in required_cols \cup {ColSector} :
                    c \in ColumnSet(columns) /\ ~IsSeries(columns, c)
        THEN [err |-> "other", missing |-> {}, df |-> <<>>]
        ELSE [err |-> "none", missing |-> {},
              df |-> [i \in 1..Len(sheet.rows) |-> LoadedRow(columns, sheet.rows[i])]]

\* load_portfolio_from_excel: err is "none", "missing" (the ValueError raised
\* for missing required columns) or "other" (any other exception)
load_portfolio_from_excel(file) ==
    IF ~IsSome(file.sheet)
    THEN [err |-> "other", missing |-> {}, df |-> <<>>]
    ELSE
    LET sheet == The(file.sheet)
        columns == StripColumns(sheet.columns)
        missing == required_cols \ ColumnSet(columns)
    IN  IF missing # {}
        THEN [err |-> "missing", missing |-> missing, df |-> <<>>]
        ELSE IF \E c \in required_cols \cup {ColSector} :
                    c \in ColumnSet(columns) /\ ~IsSeries(columns, c)
        THEN [err |-> "other", missing |-> {}, df |-> <<>>]
        ELSE [err |-> "none", missing |-> {},
              df |-> [i \in 1..Len(sheet.rows) |-> LoadedRow(columns, sheet.rows[i])]]

\* ------------------------------------------------------------ live prices
PSX_SUFFIX == <<".", "P", "S", "X">>

Range(xs) == {xs[i] : i \in 1..Len(xs)}

\* yf_symbols = [s + PSX_SUFFIX for s in symbols]
YfSymbols(symbols) == {sym \o PSX_SUFFIX : sym \in Range(symbols)}

\* What yf.download gives main(): no request is made (kind "none"), the
\* request or the reading of its result raises (kind "error"), a frame with
\* one Close column per ticker (kind "multi", close: ticker -> float) or, for a
\* single ticker, a frame with one Close column (kind "flat", last: float).
NoData == [kind |-> "none", close |-> <<>>, last |-> NaN]
ErrorData == [kind |-> "error", close |-> <<>>, last |-> NaN]
MultiData(close) == [kind |-> "multi", close |-> close, last |-> NaN]
FlatData(last) == [kind |-> "flat", close |-> <<>>, last |-> last]

\* the entries the loop over last_close.items() leaves in prices for the key base
PricedAs(close, base) ==
    {y \in DOMAIN close : ~close[y].nan /\ SplitFirst(y, ".") = base}

\* of several tickers with one base symbol the last one in column order wins;
\* the columns are taken in string order
LastOf(ys) == CHOOSE y \in ys : \A z \in ys : z = y \/ StrLess(z, y)

\* get_live_psx_prices: the dict symbol -> price
get_live_psx_prices(symbols, data) ==
    IF symbols = <<>> THEN <<>>
    ELSE CASE data.kind = "multi" ->
                LET bases == {SplitFirst(y, ".") : y \in {z \in DOMAIN data.close : ~data.close[z].nan}}
                IN  [b \in bases |-> data.close[LastOf(PricedAs(data.close, b))]]
           [] data.kind = "flat" -> [b \in {symbols[1]} |-> data.last]
           [] OTHER -> <<>>

\* ------------------------------------------------------------ valuation
\* portfolio_df["Symbol"].map(live_prices)
MapPrice(live_prices, symbol) ==
    IF symbol \in DOMAIN live_prices THEN live_prices[symbol] ELSE NaN

\* main(), "Warn if some prices are missing": the symbols without a price
MissingPrices(df, live_prices) ==
    {i \in 1..Len(df) : MapPrice(live_prices, df[i].Symbol).nan}

\* the current_price column main() stores: filled with 0.0 when any is missing
CurrentPrice(live_prices, symbol) == Fillna(MapPrice(live_prices, symbol), 0)

Cost(row) == FMul(row.Quantity, row.BuyPrice)
\* the market value taken at the buy price
MarketValueAtBuyPrice(row, current_price) == FMul(row.Quantity, row.BuyPrice)

MarketValue(row, current_price) == FMul(row.Quantity, current_price)
Pnl(market_value, cost) == FSub(market_value, cost)

\* one row of portfolio_df after "Compute per-holding metrics"
Valued(row, live_prices) ==
    LET current_price == CurrentPrice(live_prices, row.Symbol)
        cost == Cost(row)
        market_value == MarketValue(row, current_price)
        pnl == Pnl(market_value, cost)
    IN  [Symbol |-> row.Symbol, Quantity |-> row.Quantity, BuyPrice |-> row.BuyPrice,
         Sector |-> row.Sector, current_price |-> current_price, cost |-> cost,
         market_value |-> market_value, pnl |-> pnl, pnl_pct |-> PnlPct(pnl, cost)]

Valuation(df, live_prices) == [i \in 1..Len(df) |-> Valued(df[i], live_prices)]

ColumnOf(pf, field) == [i \in 1..Len(pf) |-> pf[i][field]]

\* total_cost, total_value, total_pnl, total_pnl_pct of main()
Totals(pf) ==
    LET total_cost == FSum(ColumnOf(pf, "cost"))
        total_pnl == FSum(ColumnOf(pf, "pnl"))
    IN  [total_cost |-> total_cost,
         total_value |-> FSum(ColumnOf(pf, "market_value")),
         total_pnl |-> total_pnl,
         total_pnl_pct |-> PnlPct(total_pnl, total_cost)]

NoTotals == [total_cost |-> F(0), total_value |-> F(0), total_pnl |-> F(0),
             total_pnl_pct |-> PctZero]

\* ------------------------------------------------------------ sector summary
\* the rows of pf of one group, in the order of pf
RECURSIVE GroupRows(_, _)
GroupRows(pf, sector) ==
    IF pf = <<>> THEN <<>>
    ELSE IF Head(pf).Sector = sector THEN <<Head(pf)>> \o GroupRows(Tail(pf), sector)
    ELSE GroupRows(Tail(pf), sector)

\* the group keys in the order groupby gives them (sorted)
RECURSIVE SortedKeys(_)
SortedKeys(keys) ==
    IF keys = {} THEN <<>>
    ELSE LET k == CHOOSE x \in keys : \A y \in keys : y = x \/ StrLess(x, y)
         IN  <<k>> \o SortedKeys(keys \ {k})

\* the summary row with market_value summed from the cost column
SummaryRowCostTwice(pf, sector) ==
    LET g == GroupRows(pf, sector)
        cost == FSum(ColumnOf(g, "cost"))
        pnl == FSum(ColumnOf(g, "pnl"))
    IN  [Sector |-> sector, cost |-> cost, market_value |-> cost,
         pnl |-> pnl, pnl_pct |-> PnlPct(pnl, cost)]

SummaryRow(pf, sector) ==
    LET g == GroupRows(pf, sector)
        cost == FSum(ColumnOf(g, "cost"))
        pnl == FSum(ColumnOf(g, "pnl"))
    IN  [Sector |-> sector, cost |-> cost,
         market_value |-> FSum(ColumnOf(g, "market_value")),
         pnl |-> pnl, pnl_pct |-> PnlPct(pnl, cost)]

compute_sector_summary(pf) ==
    LET keys == SortedKeys({pf[i].Sector : i \in 1..Len(pf)})
    IN  [k \in 1..Len(keys) |-> SummaryRow(pf, keys[k])]

\* ------------------------------------------------------------ display
\* the digits ds with the thousands separators of the "," format option
RECURSIVE Commas(_)
Commas(ds) ==
    IF Len(ds) <= 3 THEN ds
    ELSE Commas(SubSeq(ds, 1, Len(ds) - 3)) \o <<",">> \o SubSeq(ds, Len(ds) - 2, Len(ds))

StrNaN == <<"n", "a", "n">>

\* f"{x:,.0f}"
Fmt0(x) ==
    IF x.nan THEN StrNaN
    ELSE (IF x.v < 0 THEN <<"-">> ELSE <<>>) \o Commas(Digits(Abs(x.v)))

\* f"{x:,.2f}" of a whole number
Fmt2(x) == IF x.nan THEN StrNaN ELSE Fmt0(x) \o <<".", "0", "0">>

\* n / d rounded to the nearest whole number, halves to even (n >= 0, d > 0)
RoundDiv(n, d) ==
    LET q == n \div d
        r == n % d
    IN  IF 2 * r > d \/ (2 * r = d /\ q % 2 = 1) THEN q + 1 ELSE q

\* f"{x:,.2f}%" of a percentage
FmtPct(p) ==
    IF p.nan THEN StrNaN \o <<"%">>
    ELSE LET h == RoundDiv(Abs(p.num) * 100, p.den)
             cents == h % 100
         IN  (IF p.num < 0 THEN <<"-">> ELSE <<>>)
             \o Commas(Digits(h \div 100)) \o <<".">>
             \o (IF cents < 10 THEN <<"0">> ELSE <<>>) \o Digits(cents) \o <<"%">>

\* one row of display_pf
Displayed(row) ==
    [Symbol |-> row.Symbol, Quantity |-> row.Quantity, Sector |-> row.Sector,
     BuyPrice |-> Fmt2(row.BuyPrice), current_price |-> Fmt2(row.current_price),
     cost |-> Fmt0(row.cost), market_value |-> Fmt0(row.market_value),
     pnl |-> Fmt0(row.pnl), pnl_pct |-> FmtPct(row.pnl_pct)]

DisplayPf(pf) == [i \in 1..Len(pf) |-> Displayed(pf[i])]

\* ------------------------------------------------------------ upload history
\* os.path.splitext: the extension starts at the last dot, unless only dots
\* come before it
SplitExt(name) ==
    LET dots == {i \in 1..Len(name) : name[i] = "."}
    IN  IF dots = {} THEN <<name, <<>>>>
        ELSE LET i == CHOOSE d \in dots : \A e \in dots : e <= d
             IN  IF \A j \in 1..(i - 1) : name[j] = "."
                 THEN <<name, <<>>>>
                 ELSE <<SubSeq(name, 1, i - 1), SubSeq(name, i, Len(name))>>

\* datetime.now().strftime("%Y%m%d_%H%M%S"); the clock of the model stays
\* within one minute, so only the seconds change
Strftime(t) ==
    <<"2", "0", "2", "5", "0", "1", "0", "1", "_", "0", "0", "0", "0">>
    \o (IF t < 10 THEN <<"0">> ELSE <<>>) \o Digits(t)

\* the file name save_upload writes to
HistoryName(original_name, t) ==
    LET base == SplitExt(original_name)[1]
        ext == SplitExt(original_name)[2]
        safe_base == Replace(base, " ", "_")
    IN  safe_base \o <<"_">> \o Strftime(t) \o ext

\* save_upload: the history directory after open(filepath, "wb") and write
save_upload(hist, file_buffer, original_name, t) ==
    LET filename == HistoryName(original_name, t)
    IN  [f \in DOMAIN hist \cup {filename} |->
            IF f = filename THEN file_buffer ELSE hist[f]]

\* uploaded_file.getbuffer(): the bytes of a file are its content
Buffer(file) == file.sheet

\* ------------------------------------------------------------ main()
Sessions == {"s1", "s2"}

\* "if 'logged_in' not in st.session_state: st.session_state['logged_in'] = False"
WithLoggedIn(ss) == IF "logged_in" \in DOMAIN ss THEN ss ELSE ("logged_in" :> FALSE) @@ ss

\* the login screen accepting an empty email
LoginClickAnyEmail(ss, pressed, email) ==
    IF pressed
    THEN ("user" :> email) @@ ("logged_in" :> TRUE) @@ ss
    ELSE ss

\* the login screen: st.button("Login") returned pressed, st.text_input email
LoginClick(ss, pressed, email) ==
    IF pressed /\ email # ""
    THEN ("user" :> email) @@ ("logged_in" :> TRUE) @@ ss
    ELSE ss

\* what a run that renders no dashboard leaves behind
NoRun ==
    [session |-> None, calls |-> <<>>, messages |-> {}, load_error |-> "none",
     live_prices |-> <<>>, portfolio_df |-> <<>>, totals |-> NoTotals,
     sector_summary |-> <<>>, display_pf |-> <<>>, report |-> None]

\* the possible answers of Yahoo Finance to a request for symbols
PriceVals == {NaN, F(1), F(2)}

DataSpace(symbols) ==
    IF symbols = <<>> THEN {NoData}
    ELSE {ErrorData}
         \cup {MultiData(c) : c \in [YfSymbols(symbols) -> PriceVals]}
         \cup (IF Cardinality(YfSymbols(symbols)) = 1
               THEN {FlatData(p) : p \in PriceVals} ELSE {})

\* the upload saved only after the load succeeded
UploadRunValidateFirst(hist, file, t) ==
    LET loaded == load_portfolio_from_excel(file)
    IN  [history |-> IF loaded.err = "none"
                     THEN save_upload(hist, Buffer(file), file.name, t) ELSE hist,
         loaded |-> loaded,
         calls |-> <<"load_portfolio_from_excel", "save_upload">>]

\* main() from "Save uploaded file to history" to the load: the history
\* directory after save_upload, then the loaded frame
UploadRun(hist, file, t) ==
    [history |-> save_upload(hist, Buffer(file), file.name, t),
     loaded |-> load_portfolio_from_excel(file),
     calls |-> <<"save_upload", "load_portfolio_from_excel">>]

\* main() from "Fetch live PSX prices" to the report download button
Report(s, calls, df, data) ==
    LET symbols == ColumnOf(df, "Symbol")
        live_prices == get_live_psx_prices(symbols, data)
        pf == Valuation(df, live_prices)
        sector_summary == compute_sector_summary(pf)
    IN  [session |-> Some(s),
         calls |-> calls \o <<"get_live_psx_prices", "compute_sector_summary">>,
         messages |-> (IF data.kind = "error" THEN {"Error while fetching prices"} ELSE {})
                      \cup (IF MissingPrices(df, live_prices) # {}
                            THEN {"Could not fetch live price"} ELSE {}),
         load_error |-> "none",
         live_prices |-> live_prices,
         portfolio_df |-> pf,
         totals |-> Totals(pf),
         sector_summary |-> sector_summary,
         display_pf |-> DisplayPf(pf),
         report |-> Some([Portfolio_Details |-> pf, Sector_Summary |-> sector_summary])]

\* main() of a logged-in session whose file_uploader holds file
Dashboard(s, file) ==
    /\ uploaded_file' = [uploaded_file EXCEPT ![s] = file]
    /\ UNCHANGED now
    /\ IF ~IsSome(file)
       THEN /\ screen' = [screen EXCEPT ![s] = "info"]
            /\ run' = [NoRun EXCEPT !.session = Some(s)]
            /\ UNCHANGED <<history_exists, history, uploads>>
       ELSE LET up == UploadRun(history, The(file), now) IN
            /\ history' = up.history
            /\ history_exists' = TRUE
            /\ uploads' = uploads \cup {[name |-> The(file).name, bytes |-> Buffer(The(file))]}
            /\ IF up.loaded.err # "none"
               THEN /\ screen' = [screen EXCEPT ![s] = "error"]
                    /\ run' = [NoRun EXCEPT !.session = Some(s), !.calls = up.calls,
                                            !.messages = {"Error reading portfolio"},
                                            !.load_error = up.loaded.err]
               ELSE /\ screen' = [screen EXCEPT ![s] = "dashboard"]
                    /\ \E data \in DataSpace(ColumnOf(up.loaded.df, "Symbol")) :
                           run' = Report(s, up.calls, up.loaded.df, data)

\* one run of main() for session s: the Login button returned pressed, the
\* email input holds email, the file_uploader holds file
Main(s, pressed, email, file) ==
    LET ss == WithLoggedIn(session_state[s]) IN
    IF ~ss["logged_in"]
    THEN /\ session_state' = [session_state EXCEPT ![s] = LoginClick(ss, pressed, email)]
         /\ screen' = [screen EXCEPT ![s] = "login"]
         /\ run' = [NoRun EXCEPT !.session = Some(s),
                                 !.messages = IF pressed /\ email = ""
                                              THEN {"Please enter a valid email."} ELSE {}]
         /\ UNCHANGED <<uploaded_file, now, history_exists, history, uploads>>
    ELSE /\ session_state' = [session_state EXCEPT ![s] = ss]
         /\ Dashboard(s, file)

\* ------------------------------------------------------------ interactions
\* Streamlit runs main() when a session connects and again on every interaction.
Open(s) ==
    /\ screen[s] = "none"
    /\ Main(s, FALSE, "", None)

ClickLogin(s, email) ==
    /\ screen[s] = "login"
    /\ Main(s, TRUE, email, None)

Rerun(s) ==
    /\ screen[s] # "none"
    /\ Main(s, FALSE, "", uploaded_file[s])

Upload(s, file) ==
    /\ screen[s] \in {"info", "error", "dashboard"}
    /\ Main(s, FALSE, "", Some(file))

RemoveUpload(s) ==
    /\ screen[s] \in {"info", "error", "dashboard"}
    /\ IsSome(uploaded_file[s])
    /\ Main(s, FALSE, "", None)

Tick ==
    /\ now < MaxClock
    /\ now' = now + 1
    /\ UNCHANGED <<session_state, uploaded_file, screen, history_exists, history, uploads, run>>

Init ==
    /\ session_state = [s \in Sessions |-> <<>>]
    /\ uploaded_file = [s \in Sessions |-> None]
    /\ screen = [s \in Sessions |-> "none"]
    /\ now = 0
    /\ history_exists = FALSE
    /\ history = <<>>
    /\ uploads = {}
    /\ run = NoRun

\* ------------------------------------------------------------ the files of the model
SheetOf(columns, rows) == [columns |-> columns, rows |-> rows]
FileOf(name, sheet) == [name |-> name, sheet |-> sheet]

StdColumns == <<ColSymbol, ColQuantity, ColBuyPrice, ColSector>>

\* two uploads whose history names agree in all but the time stamp
NameSpaced == <<"a", " ", "b", ".", "x", "l", "s", "x">>
NameUnderscored == <<"a", "_", "b", ".", "x", "l", "s", "x">>

GoodSheet ==
    SheetOf(StdColumns, <<<<TextCell(<<"A">>), NumCell(1), NumCell(1), TextCell(<<"P">>)>>>>)
NoQuantitySheet ==
    SheetOf(<<ColSymbol, ColBuyPrice>>, <<<<TextCell(<<"A">>), NumCell(1)>>>>)

AppFiles ==
    {FileOf(NameSpaced, Some(GoodSheet)),
     FileOf(NameUnderscored, Some(NoQuantitySheet))}

Emails == {"", "u@x"}

Next ==
    \/ \E s \in Sessions : Open(s)
    \/ \E s \in Sessions, email \in Emails : ClickLogin(s, email)
    \/ \E s \in Sessions : Rerun(s)
    \/ \E s \in Sessions, file \in AppFiles : Upload(s, file)
    \/ \E s \in Sessions : RemoveUpload(s)
    \/ Tick

Spec == Init /\ [][Next]_vars

\* ------------------------------------------------------------ the sheets of the pipeline
\* One session uploads one workbook; the workbooks range over sheets with
\* whole-number cells in the documented layout (RichSheets, LongSheets) and
\* over header layouts and cell kinds (LayoutSheets).
NameP == <<"p", ".", "x", "l", "s", "x">>

SymA == <<"A">>
SymB == <<"B">>
SecP == <<"P">>
SecPadded == <<" ", "P">>
SecQ == <<"Q">>

RichRows ==
    {<<TextCell(sym), NumCell(q), NumCell(bp), TextCell(sec)>> :
        sym \in {SymA, SymB}, q \in {0, 1, 2}, bp \in {0, 1, 2},
        sec \in {SecP, SecPadded, SecQ}}

RichSheets ==
    {SheetOf(StdColumns, <<>>)}
    \cup {SheetOf(StdColumns, <<r>>) : r \in RichRows}
    \cup {SheetOf(StdColumns, <<r1, r2>>) : r1 \in RichRows, r2 \in RichRows}

LongRows ==
    {<<TextCell(SymA), NumCell(q), NumCell(1), TextCell(sec)>> :
        q \in {1, 2}, sec \in {SecP, SecQ}}

LongSheets ==
    {SheetOf(StdColumns, rows) : rows \in UNION {[1..n -> LongRows] : n \in 1..MaxRows}}

\* header layouts: documented, without Sector, padded, in other spellings,
\* with a required column missing, with a column that is no spelling of a
\* required one, and with two columns that strip to the same name
Layouts ==
    {StdColumns,
     <<ColSymbol, ColQuantity, ColBuyPrice>>,
     <<<<" ">> \o ColSymbol, ColQuantity \o <<" ">>, <<" ">> \o ColBuyPrice \o <<" ">>, ColSector>>,
     <<Upper(ColSymbol), Lower(ColQuantity), <<"b", "u", "y", "_", "p", "r", "i", "c", "e">>, ColSector>>,
     <<ColSymbol, ColQuantity, <<"B", "U", "Y", "P", "R", "I", "C", "E">>>>,
     <<ColSymbol, ColBuyPrice, ColSector>>,
     <<ColSymbol, <<"Q", "t", "y">>, ColBuyPrice>>,
     <<ColSector>>,
     <<ColSymbol, <<" ">> \o ColSymbol, ColQuantity, ColBuyPrice>>}

\* the header h with case folded and spaces and underscores removed
Normalized(h) == Without(Lower(h), {" ", "_"})

SymbolCells == {TextCell(<<" ", "a">>), EmptyCell}
NumberCells == {NumCell(0 - 1), NumCell(2), TextCell(<<"x">>), TextCell(<<" ", "2">>), EmptyCell}
SectorCells == {TextCell(SecPadded), EmptyCell}

CellsFor(h) ==
    CASE Normalized(h) = Normalized(ColSymbol) -> SymbolCells
      [] Normalized(h) = Normalized(ColQuantity) -> NumberCells
      [] Normalized(h) = Normalized(ColBuyPrice) -> NumberCells
      [] Normalized(h) = Normalized(ColSector) -> SectorCells
      [] OTHER -> {NumCell(1)}

LayoutCells == SymbolCells \cup NumberCells \cup SectorCells \cup {NumCell(1)}

LayoutRows(columns) ==
    {r \in [1..Len(columns) -> LayoutCells] : \A j \in 1..Len(columns) : r[j] \in CellsFor(columns[j])}

LayoutSheets ==
    UNION {{SheetOf(columns, <<>>)} \cup {SheetOf(columns, <<r>>) : r \in LayoutRows(columns)} :
           columns \in Layouts}

SheetFiles ==
    {FileOf(NameP, Some(sheet)) : sheet \in RichSheets \cup LongSheets \cup LayoutSheets}
    \cup {FileOf(NameP, None)}

FirstUpload(s) ==
    /\ ~IsSome(uploaded_file[s])
    /\ screen[s] = "info"
    /\ \E file \in SheetFiles : Upload(s, file)

NextSheet ==
    \/ Open("s1")
    \/ ClickLogin("s1", "u@x")
    \/ FirstUpload("s1")

SpecSheet == Init /\ [][NextSheet]_vars

\* ------------------------------------------------------------ properties
\* the session of the last run and the file its uploader holds
Ran == IsSome(run.session)
RunFile == uploaded_file[The(run.session)]
Uploaded == Ran /\ IsSome(RunFile) /\ run.calls # <<>>

Holdings == 1..Len(run.portfolio_df)
Holding(i) == run.portfolio_df[i]
SectorRows == 1..Len(run.sector_summary)
SectorRow(k) == run.sector_summary[k]
Members(k) == {i \in Holdings : Holding(i).Sector = SectorRow(k).Sector}

\* the sum of a field over the rows S of a table
RECURSIVE SumOver(_, _, _)
SumOver(table, S, field) ==
    IF S = {} THEN 0
    ELSE LET i == CHOOSE x \in S : TRUE
         IN  table[i][field].v + SumOver(table, S \ {i}, field)

Numeric(x) == ~x.nan

\* a price was fetched for holding i
PricePresent(i) ==
    /\ Holding(i).Symbol \in DOMAIN run.live_prices
    /\ ~run.live_prices[Holding(i).Symbol].nan

PriceOrZero(i) == IF PricePresent(i) THEN run.live_prices[Holding(i).Symbol].v ELSE 0

\* C1: for every holding of a run, cost = quantity * buy_price, market_value =
\* quantity * (the fetched price if there is one, else 0), pnl = market_value - cost.
C1_HoldingArithmetic ==
    \A i \in Holdings :
        LET h == Holding(i) IN
        /\ Numeric(h.cost) /\ Numeric(h.market_value) /\ Numeric(h.pnl)
        /\ h.cost.v = h.Quantity.v * h.BuyPrice.v
        /\ h.market_value.v = h.Quantity.v * PriceOrZero(i)
        /\ h.pnl.v = h.market_value.v - h.cost.v

\* C1 witness: a run with a priced holding of positive value and an unpriced
\* holding of positive cost
C1_Witness ==
    /\ \E i \in Holdings : PricePresent(i) /\ Holding(i).market_value.v > 1
    /\ \E i \in Holdings : ~PricePresent(i) /\ Holding(i).cost.v > 1

\* p is pnl / cost * 100, or 0 when cost is 0
IsPctOf(p, pnl, cost) ==
    IF cost # 0
    THEN ~p.nan /\ p.den > 0 /\ p.num * cost = pnl * 100 * p.den
    ELSE ~p.nan /\ p.num = 0

\* C2: every holding row and every sector row has pnl_pct = pnl / cost * 100
\* when cost # 0 and pnl_pct = 0 when cost = 0, where a sector row's pnl and
\* cost are the sums over the holdings of the sector.
C2_ZeroCostPolicy ==
    /\ \A i \in Holdings :
           IsPctOf(Holding(i).pnl_pct, Holding(i).pnl.v, Holding(i).cost.v)
    /\ \A k \in SectorRows :
           IsPctOf(SectorRow(k).pnl_pct,
                   SumOver(run.portfolio_df, Members(k), "pnl"),
                   SumOver(run.portfolio_df, Members(k), "cost"))

\* the sum of the percentages of the holdings S, as a fraction <<n, d>>
RECURSIVE PctSum(_)
PctSum(S) ==
    IF S = {} THEN <<0, 1>>
    ELSE LET i == CHOOSE x \in S : TRUE
             rest == PctSum(S \ {i})
             p == Holding(i).pnl_pct
         IN  <<p.num * rest[2] + rest[1] * p.den, p.den * rest[2]>>

\* C2 witness: a holding of cost 0 and pnl # 0 has pnl_pct 0, and a sector of
\* several holdings has a pnl_pct that is neither the sum nor the mean of theirs
C2_Witness ==
    /\ \E i \in Holdings :
           Holding(i).cost.v = 0 /\ Holding(i).pnl.v # 0 /\ Holding(i).pnl_pct.num = 0
    /\ \E k \in SectorRows :
           LET p == SectorRow(k).pnl_pct
               sum == PctSum(Members(k))
               n == Cardinality(Members(k))
           IN  /\ n > 1
               /\ SectorRow(k).cost.v # 0
               /\ p.num * sum[2] # sum[1] * p.den
               /\ p.num * sum[2] * n # sum[1] * p.den

\* C3: every sector row holds the sums of cost, market_value and pnl over the
\* holdings with its Sector string, every holding is in exactly one sector
\* row, and the sector rows add up to the grand totals.
C3_SectorConservation ==
    /\ \A k \in SectorRows : \A field \in {"cost", "market_value", "pnl"} :
           /\ Numeric(SectorRow(k)[field])
           /\ SectorRow(k)[field].v = SumOver(run.portfolio_df, Members(k), field)
    /\ \A i \in Holdings : Cardinality({k \in SectorRows : i \in Members(k)}) = 1
    /\ SumOver(run.sector_summary, SectorRows, "cost") = run.totals.total_cost.v
    /\ SumOver(run.sector_summary, SectorRows, "market_value") = run.totals.total_value.v
    /\ SumOver(run.sector_summary, SectorRows, "pnl") = run.totals.total_pnl.v
    /\ run.totals.total_cost.v = SumOver(run.portfolio_df, Holdings, "cost")
    /\ run.totals.total_value.v = SumOver(run.portfolio_df, Holdings, "market_value")
    /\ run.totals.total_pnl.v = SumOver(run.portfolio_df, Holdings, "pnl")

\* C3 witness: two sectors, one of them with several holdings, whose values
\* are not all zero
C3_Witness ==
    /\ Cardinality(SectorRows) > 1
    /\ \E k \in SectorRows :
           /\ Cardinality(Members(k)) > 1
           /\ SectorRow(k).market_value.v > 0
           /\ SectorRow(k).pnl.v # 0
    /\ run.totals.total_cost.v > 0

\* the My_Stocks sheet of the file of the last run
HasSheet == IsSome(The(RunFile).sheet)
RunSheet == The(The(RunFile).sheet)

\* the headers of the sheet that are called name once stripped
Named(name) == {j \in 1..Len(RunSheet.columns) : Strip(RunSheet.columns[j]) = name}

\* the headers of the sheet that equal name after case folding and removal of
\* spaces and underscores
Resolving(name) ==
    {j \in 1..Len(RunSheet.columns) : Normalized(RunSheet.columns[j]) = Normalized(name)}

HardStop ==
    /\ screen[The(run.session)] = "error"
    /\ run.calls = <<"save_upload", "load_portfolio_from_excel">>
    /\ run.portfolio_df = <<>>
    /\ run.live_prices = <<>>
    /\ run.totals = NoTotals
    /\ run.sector_summary = <<>>
    /\ run.display_pf = <<>>
    /\ run.report = None

\* C4: a run whose sheet lacks a column for symbol, quantity or buy price
\* fails with the missing-column error, a failed load is a hard stop (no
\* holdings, valuation, sector summary or report), and a sheet with the
\* columns Symbol, Quantity and Buy Price, with or without Sector, loads.
C4_ValidationHardStop ==
    Uploaded =>
        /\ (HasSheet /\ \E name \in required_cols : Named(name) = {})
               => run.load_error = "missing"
        /\ (HasSheet /\ \E name \in required_cols : Resolving(name) = {})
               => run.load_error = "missing"
        /\ run.load_error = "missing"
               => (HasSheet /\ \E name \in required_cols : Named(name) = {})
        /\ run.load_error # "none" => HardStop
        /\ (/\ HasSheet
            /\ \A name \in required_cols : Cardinality(Named(name)) = 1
            /\ Cardinality(Named(ColSector)) <= 1)
               => /\ run.load_error = "none"
                  /\ IsSome(run.report)
                  /\ Len(run.portfolio_df) = Len(RunSheet.rows)

\* C4 witness: a sheet with a holding and no Quantity column stopped the run
C4_Witness ==
    /\ Uploaded
    /\ HasSheet
    /\ Named(ColQuantity) = {}
    /\ Named(ColSymbol) # {}
    /\ Len(RunSheet.rows) > 0
    /\ run.load_error = "missing"
    /\ HardStop

\* C5: a sheet whose headers equal Symbol, Quantity and Buy Price after case
\* folding and removal of spaces and underscores is accepted by the loader.
C5_LenientResolution ==
    (/\ Uploaded
     /\ HasSheet
     /\ \A name \in required_cols : Cardinality(Resolving(name)) = 1
     /\ Cardinality(Resolving(ColSector)) <= 1)
        => run.load_error = "none"

\* C6: a holding without a fetched price keeps a missing current_price in the
\* stored, displayed and exported holdings; 0 is used for market_value only.
C6_MissingPriceKept ==
    \A i \in Holdings :
        ~PricePresent(i) =>
            /\ Holding(i).current_price.nan
            /\ The(run.report).Portfolio_Details[i].current_price.nan
            /\ run.display_pf[i].current_price # <<"0", ".", "0", "0">>

\* C7: the quantity and buy price of every loaded holding are numbers, never
\* missing and never negative.
C7_LoadedNonNegative ==
    \A i \in Holdings :
        /\ Numeric(Holding(i).Quantity) /\ Holding(i).Quantity.v >= 0
        /\ Numeric(Holding(i).BuyPrice) /\ Holding(i).BuyPrice.v >= 0

\* ------------------------------------------------------------ properties of the sessions
LoggedIn(s) == "logged_in" \in DOMAIN session_state[s] /\ session_state[s]["logged_in"]

\* this step is a run of main() for session s
RunOf(s) == now' = now /\ run'.session = Some(s)

DashboardScreens == {"info", "error", "dashboard"}

\* C8: after any runs, the history directory holds, for every upload that was
\* saved, a file with the bytes of that upload.
C8_EveryUploadKept ==
    \A u \in uploads : \E n \in DOMAIN history : history[n] = u.bytes

\* C9: a run of a session that is not logged in stops at the login screen and
\* saves, loads, fetches and reports nothing; logged_in becomes true only in a
\* run of the login screen with a non-empty email, a click with an empty email
\* only warns; logged_in never becomes false again; the dashboard is rendered
\* by the runs that start logged in, never by the run that logs in.
C9_LoginGating ==
    [][\A s \in Sessions :
        /\ (RunOf(s) /\ ~LoggedIn(s))
              => /\ screen'[s] = "login"
                 /\ run'.calls = <<>>
                 /\ run'.portfolio_df = <<>>
                 /\ run'.report = None
                 /\ history' = history
                 /\ history_exists' = history_exists
                 /\ uploads' = uploads
                 /\ uploaded_file' = uploaded_file
        /\ (~LoggedIn(s) /\ LoggedIn(s)')
              => /\ RunOf(s)
                 /\ screen[s] = "login"
                 /\ session_state'[s]["user"] # ""
                 /\ run'.messages = {}
        /\ (RunOf(s) /\ run'.messages = {"Please enter a valid email."}) => ~LoggedIn(s)'
        /\ LoggedIn(s) => LoggedIn(s)'
        /\ (RunOf(s) /\ LoggedIn(s)) => screen'[s] \in DashboardScreens
        /\ screen'[s] \in DashboardScreens => LoggedIn(s)'
      ]_vars

\* C9 witness: one session has logged in and still sees the login screen, the
\* other one clicked Login with an empty email and was warned
C9_Witness ==
    /\ LoggedIn("s1") /\ screen["s1"] = "login"
    /\ ~LoggedIn("s2") /\ screen["s2"] = "login"
    /\ run.session = Some("s2")
    /\ run.messages = {"Please enter a valid email."}

\* C10: a run of a logged-in session with an uploaded file calls save_upload
\* before the load and leaves a history file with the bytes of the upload,
\* whether or not the load fails, and removes no history file; every other
\* run leaves the history directory as it was.
C10_SaveBeforeValidate ==
    [][\A s \in Sessions : RunOf(s) =>
        IF LoggedIn(s) /\ IsSome(uploaded_file'[s])
        THEN /\ Len(run'.calls) >= 2
             /\ SubSeq(run'.calls, 1, 2) = <<"save_upload", "load_portfolio_from_excel">>
             /\ history_exists'
             /\ \E n \in DOMAIN history' : history'[n] = Buffer(The(uploaded_file'[s]))
             /\ DOMAIN history \subseteq DOMAIN history'
             /\ Cardinality(DOMAIN history' \ DOMAIN history) <= 1
             /\ Cardinality({n \in DOMAIN history : history'[n] # history[n]}) <= 1
        ELSE /\ history' = history
             /\ history_exists' = history_exists
             /\ uploads' = uploads
      ]_vars

\* C10 witness: the last run failed with the missing-column error and the
\* history directory holds its upload next to an earlier one
C10_Witness ==
    /\ Uploaded
    /\ run.load_error = "missing"
    /\ \E n \in DOMAIN history : history[n] = Buffer(The(RunFile))
    /\ \E n \in DOMAIN history : history[n] # Buffer(The(RunFile))

====
